---------------------------- MODULE Spec2Model ----------------------------
(***************************************************************************)
(* The notebook tansmon+LC+transmon.ipynb, executed top to bottom: two     *)
(* transmons and a resonator are built, assembled into a HilbertSpace,     *)
(* coupled by two interaction terms, swept over a flux grid by a           *)
(* ParameterSweep that calls back update_hilbertspace, and shown in an     *)
(* Explorer.                                                               *)
(*                                                                         *)
(* Units: energies (EJ, EC, E_osc, g) and ng are fixed point, in           *)
(* hundredths (40.0 is 4000, 0.15 is 15).  Angles are tenths of a degree.  *)
(* |cos| is computed by Bhaskara's rational approximation, in hundredths.  *)
(*                                                                         *)
(* The scqubits calls are modelled by their API contract as the notebook   *)
(* uses it: add_interaction(g, op1, op2, add_hc) adds g*op1*op2 (plus the  *)
(* hermitian conjugate when add_hc), ParameterSweep runs on construction   *)
(* and calls update_hilbertspace once per grid point and pass (the passes  *)
(* are the progress bars of the cell's recorded output).                   *)
(***************************************************************************)
EXTENDS Integers, Sequences, FiniteSets

VARIABLES
    pc,            \* the statement about to run
    bound,         \* names bound in the notebook's namespace
    tmon1, tmon2,  \* the Transmon objects' attributes
    resonator,     \* the Oscillator object's attributes
    scalars,       \* g, g1, g2
    operator1, operator2, \* the operators built in cell 4e6bc571
    hilbertspace,  \* the object the name hilbertspace is bound to (0: none)
    hs,            \* the HilbertSpace objects: 1 the GUI's, 2 the programmatic one
    printed,       \* what print(hilbertspace) showed
    guiClicks,     \* how often the user has pressed the GUI's create button
    sweep,         \* the ParameterSweep object and its progress
    arg,           \* grid index of the running update_hilbertspace call
    active,        \* update_hilbertspace frames on the stack
    observed,      \* what the library last read during the sweep
    seen,          \* per sampled grid index, the EJ pair first left by a call
    explorer,      \* the Explorer object
    calls,         \* library calls made by the notebook, by callee
    stages         \* the stage of each scqubits call, in call order

vars == <<pc, bound, tmon1, tmon2, resonator, scalars, operator1, operator2,
          hilbertspace, hs, printed, guiClicks, sweep, arg, active, observed,
          seen, explorer, calls, stages>>

-----------------------------------------------------------------------------
(* Bounds *)

\* How often the user presses the GUI's create button.
MaxGuiClicks == 2

\* The grid indices update_hilbertspace is applied to in UpdSpec are
\* i * (NumPts - 1) \div MaxSample, i = 0 .. MaxSample.
MaxSample == 5

-----------------------------------------------------------------------------
(* Configuration values of the notebook *)

NumPts == 151

Tmon1Args == [EJ |-> 4000, EC |-> 20, ng |-> 30, ncut |-> 40, truncated_dim |-> 4]

Tmon2Args == [EJ |-> 1500, EC |-> 15, ng |-> 0, ncut |-> 30, truncated_dim |-> 4]

ResonatorArgs == [E_osc |-> 450, truncated_dim |-> 4]

NoTransmon == [EJ |-> 0, EC |-> 0, ng |-> 0, ncut |-> 0, truncated_dim |-> 0]

NoOscillator == [E_osc |-> 0, truncated_dim |-> 0]

SubsysNames == {"tmon1", "tmon2", "resonator"}

Callees == {"Transmon", "Oscillator", "HilbertSpace.create", "HilbertSpace",
            "n_operator", "creation_operator", "annihilation_operator",
            "add_interaction", "linspace", "ParameterSweep", "Explorer"}

\* The callees that belong to scqubits (np.linspace is numpy's).
ScqCallees == Callees \ {"linspace"}

\* The stage of the notebook a scqubits callee belongs to.
StageOf(c) ==
    CASE c \in {"Transmon", "Oscillator"} -> 1
      [] c \in {"HilbertSpace.create", "HilbertSpace"} -> 2
      [] c \in {"n_operator", "creation_operator", "annihilation_operator",
                "add_interaction"} -> 3
      [] c = "ParameterSweep" -> 4
      [] c = "Explorer" -> 5

-----------------------------------------------------------------------------
(* The order of the statements: the cells top to bottom *)

Program == << "c1_import",
              "c2_tmon1", "c2_tmon2", "c2_resonator",
              "c3_g", "c3_create",
              "c4_hilbertspace", "c4_print",
              "c5_g1", "c5_operator1", "c5_operator2", "c5_add1",
              "c5_g2", "c5_add2",
              "c6_params", "c6_sweep",
              "c7_explorer",
              "done" >>

\* The explorer cell placed before the sweep cell.
ProgramExplorerFirst == << "c1_import",
              "c2_tmon1", "c2_tmon2", "c2_resonator",
              "c3_g", "c3_create",
              "c4_hilbertspace", "c4_print",
              "c5_g1", "c5_operator1", "c5_operator2", "c5_add1",
              "c5_g2", "c5_add2",
              "c6_params", "c7_explorer", "c6_sweep",
              "done" >>

\* The GUI cell placed after the programmatic one.
ProgramGuiSecond == << "c1_import",
              "c2_tmon1", "c2_tmon2", "c2_resonator",
              "c4_hilbertspace", "c4_print",
              "c3_g", "c3_create",
              "c5_g1", "c5_operator1", "c5_operator2", "c5_add1",
              "c5_g2", "c5_add2",
              "c6_params", "c6_sweep",
              "c7_explorer",
              "done" >>

\* The second transmon's constructor call left out.
ProgramNoTmon2 == << "c1_import",
              "c2_tmon1", "c2_resonator",
              "c3_g", "c3_create",
              "c4_hilbertspace", "c4_print",
              "c5_g1", "c5_operator1", "c5_operator2", "c5_add1",
              "c5_g2", "c5_add2",
              "c6_params", "c6_sweep",
              "c7_explorer",
              "done" >>

Successor(prog, p) ==
    LET i == CHOOSE j \in 1..Len(prog) : prog[j] = p
    IN  IF i < Len(prog) THEN prog[i + 1] ELSE p

NextStmtExplorerFirst(p) == Successor(ProgramExplorerFirst, p)

NextStmtGuiSecond(p) == Successor(ProgramGuiSecond, p)

NextStmtNoTmon2(p) == Successor(ProgramNoTmon2, p)

NextStmt(p) == Successor(Program, p)

\* The kernel is idle (between two cells, or after the last): the only
\* moments a widget callback can run.
CellBoundaries == {"c2_tmon1", "c3_g", "c4_hilbertspace", "c5_g1",
                   "c6_params", "c7_explorer", "done"}

-----------------------------------------------------------------------------
(* update_hilbertspace: the two assignments and their arithmetic *)

\* np.pi * param_val for grid index k (param_val = k / (NumPts - 1)), in
\* tenths of a degree.
Angle1(k) == (1800 * k) \div (NumPts - 1)

\* np.pi * param_val * 2, in tenths of a degree.
Angle2(k) == (3600 * k) \div (NumPts - 1)

\* np.abs(np.cos(x)) in hundredths, x in tenths of a degree: the angle is
\* folded into [0, 90] degrees, where |cos x| = (32400 - 4 x^2) / (32400 + x^2)
\* in degrees (Bhaskara), exact at 0, 60 and 90 degrees.
AbsCos(x) ==
    LET r == x % 1800
        f == IF r > 900 THEN 1800 - r ELSE r
    IN  (100 * (3240000 - 4 * f * f)) \div (3240000 + f * f)

\* tmon1.EJ += ... instead of tmon1.EJ = ...
SetEJ1Accumulate(t, k) == [t EXCEPT !.EJ = @ + 30 * AbsCos(Angle1(k))]

\* The first assignment also rescales the charging energy.
SetEJ1AndEC(t, k) == [t EXCEPT !.EJ = 30 * AbsCos(Angle1(k)), !.EC = @ + 1]

\* tmon1.EJ = 30*np.abs(np.cos(np.pi * param_val))
SetEJ1(t, k) == [t EXCEPT !.EJ = 30 * AbsCos(Angle1(k))]

\* tmon2.EJ = 40*np.abs(np.cos(np.pi * param_val * 2))
SetEJ2(t, k) == [t EXCEPT !.EJ = 40 * AbsCos(Angle2(k))]

\* The grid indices of param_vals.
Grid == 0 .. (NumPts - 1)

\* The grid indices UpdSpec applies update_hilbertspace to.
SampleIdx == {(i * (NumPts - 1)) \div MaxSample : i \in 0..MaxSample}

NoPair == <<-1, -1>>

-----------------------------------------------------------------------------
(* Interaction terms.  An operator on one subsystem is a sum of the         *)
(* elementary operators n, a, adag, held as the set of its summands.        *)

\* Hermitian conjugate of an elementary operator: n is Hermitian.
Dag(m) == CASE m = "a" -> "adag" [] m = "adag" -> "a" [] OTHER -> m

\* The first add_interaction call's arguments.
Interaction1 == [g |-> scalars.g1, sys1 |-> "tmon1", op1 |-> operator1,
                 sys2 |-> "resonator", op2 |-> operator2, add_hc |-> FALSE]

\* The second call without add_hc=True.
Interaction2NoHc == [g |-> scalars.g2, sys1 |-> "tmon2", op1 |-> {"n"},
                 sys2 |-> "resonator", op2 |-> {"adag"}, add_hc |-> FALSE]

\* The second add_interaction call's arguments: the callables
\* tmon2.n_operator and resonator.creation_operator, and add_hc=True.
Interaction2 == [g |-> scalars.g2, sys1 |-> "tmon2", op1 |-> {"n"},
                 sys2 |-> "resonator", op2 |-> {"adag"}, add_hc |-> TRUE]

\* The coefficient with which the product m1 (on s1) * m2 (on s2) occurs in
\* one term: g for the product itself, g again for its hermitian conjugate.
TermCoeff(t, s1, m1, s2, m2) ==
    IF t.sys1 = s1 /\ t.sys2 = s2
    THEN (IF m1 \in t.op1 /\ m2 \in t.op2 THEN t.g ELSE 0)
         + (IF t.add_hc /\ Dag(m1) \in t.op1 /\ Dag(m2) \in t.op2 THEN t.g ELSE 0)
    ELSE 0

RECURSIVE SumCoeff(_, _, _, _, _)
SumCoeff(ts, s1, m1, s2, m2) ==
    IF ts = << >> THEN 0
    ELSE TermCoeff(Head(ts), s1, m1, s2, m2) + SumCoeff(Tail(ts), s1, m1, s2, m2)

ElemOps == {"n", "a", "adag"}

\* The interaction Hamiltonian of a list of terms, expanded: every product of
\* elementary operators on an ordered pair of subsystems with its (nonzero)
\* coefficient.
InteractionHamiltonian(ts) ==
    {[sys1 |-> s1, op1 |-> m1, sys2 |-> s2, op2 |-> m2,
      coeff |-> SumCoeff(ts, s1, m1, s2, m2)] :
        s1 \in SubsysNames, m1 \in ElemOps, s2 \in SubsysNames, m2 \in ElemOps}
    \ {[sys1 |-> s1, op1 |-> m1, sys2 |-> s2, op2 |-> m2, coeff |-> 0] :
        s1 \in SubsysNames, m1 \in ElemOps, s2 \in SubsysNames, m2 \in ElemOps}

-----------------------------------------------------------------------------
(* The state before the first cell runs *)

NoHilbertSpace == [exists |-> FALSE, subsystems |-> << >>, interactions |-> << >>]

NoSweep == [built |-> FALSE, hsid |-> 0, phase |-> 0, idx |-> 0, ran |-> FALSE,
            interactionsAtStart |-> 0]

NoObservation == [valid |-> FALSE, phase |-> 0, k |-> 0, EJ1 |-> 0, EJ2 |-> 0,
                  active |-> 0]

NoExplorer == [built |-> FALSE, sweepBuilt |-> FALSE, sweepRan |-> FALSE]

Init ==
    /\ pc = "c1_import"
    /\ bound = {}
    /\ tmon1 = NoTransmon
    /\ tmon2 = NoTransmon
    /\ resonator = NoOscillator
    /\ scalars = [g |-> 0, g1 |-> 0, g2 |-> 0]
    /\ operator1 = {}
    /\ operator2 = {}
    /\ hilbertspace = 0
    /\ hs = [i \in {1, 2} |-> NoHilbertSpace]
    /\ printed = [done |-> FALSE, text |-> << >>]
    /\ guiClicks = 0
    /\ sweep = NoSweep
    /\ arg = 0
    /\ active = 0
    /\ observed = NoObservation
    /\ seen = [k \in SampleIdx |-> NoPair]
    /\ explorer = NoExplorer
    /\ calls = [c \in Callees |-> 0]
    /\ stages = << >>

\* One call of a scqubits callee: counted, and its stage logged.
LibCall(c) ==
    /\ calls' = [calls EXCEPT ![c] = @ + 1]
    /\ stages' = Append(stages, StageOf(c))

\* The attributes of the object a name is bound to.
Obj(name) ==
    CASE name = "tmon1" -> tmon1
      [] name = "tmon2" -> tmon2
      [] name = "resonator" -> resonator

-----------------------------------------------------------------------------
(* The cells, statement by statement *)

\* import numpy as np; import scqubits as scq
Import ==
    /\ pc = "c1_import"
    /\ pc' = NextStmt(pc)
    /\ bound' = bound \cup {"np", "scq"}
    /\ UNCHANGED <<tmon1, tmon2, resonator, scalars, operator1, operator2,
                   hilbertspace, hs, printed, guiClicks, sweep, arg, active,
                   observed, seen, explorer, calls, stages>>

\* tmon1 = scq.Transmon(EJ=40.0, EC=0.2, ng=0.3, ncut=40, truncated_dim=4)
MakeTmon1 ==
    /\ pc = "c2_tmon1"
    /\ pc' = NextStmt(pc)
    /\ tmon1' = Tmon1Args
    /\ bound' = bound \cup {"tmon1"}
    /\ LibCall("Transmon")
    /\ UNCHANGED <<tmon2, resonator, scalars, operator1, operator2,
                   hilbertspace, hs, printed, guiClicks, sweep, arg, active,
                   observed, seen, explorer>>

\* tmon2 = scq.Transmon(EJ=15.0, EC=0.15, ng=0.0, ncut=30, truncated_dim=4)
MakeTmon2 ==
    /\ pc = "c2_tmon2"
    /\ pc' = NextStmt(pc)
    /\ tmon2' = Tmon2Args
    /\ bound' = bound \cup {"tmon2"}
    /\ LibCall("Transmon")
    /\ UNCHANGED <<tmon1, resonator, scalars, operator1, operator2,
                   hilbertspace, hs, printed, guiClicks, sweep, arg, active,
                   observed, seen, explorer>>

\* resonator = scq.Oscillator(E_osc=4.5, truncated_dim=4)
MakeResonator ==
    /\ pc = "c2_resonator"
    /\ pc' = NextStmt(pc)
    /\ resonator' = ResonatorArgs
    /\ bound' = bound \cup {"resonator"}
    /\ LibCall("Oscillator")
    /\ UNCHANGED <<tmon1, tmon2, scalars, operator1, operator2,
                   hilbertspace, hs, printed, guiClicks, sweep, arg, active,
                   observed, seen, explorer>>

\* g = 0.1
AssignG ==
    /\ pc = "c3_g"
    /\ pc' = NextStmt(pc)
    /\ scalars' = [scalars EXCEPT !.g = 10]
    /\ bound' = bound \cup {"g"}
    /\ UNCHANGED <<tmon1, tmon2, resonator, operator1, operator2,
                   hilbertspace, hs, printed, guiClicks, sweep, arg, active,
                   observed, seen, explorer, calls, stages>>

\* hilbertspace = scq.HilbertSpace.create(): an empty HilbertSpace that the
\* widget fills in when the user presses its button.
CreateByGui ==
    /\ pc = "c3_create"
    /\ pc' = NextStmt(pc)
    /\ hs' = [hs EXCEPT ![1] = [exists |-> TRUE, subsystems |-> << >>,
                                interactions |-> << >>]]
    /\ hilbertspace' = 1
    /\ bound' = bound \cup {"hilbertspace"}
    /\ LibCall("HilbertSpace.create")
    /\ UNCHANGED <<tmon1, tmon2, resonator, scalars, operator1, operator2,
                   printed, guiClicks, sweep, arg, active, observed, seen,
                   explorer>>

\* The subsystem selections the widget offers: the lists of distinct
\* subsystems.
GuiSelections ==
    {s \in UNION {[1..n -> SubsysNames] : n \in 0..3} :
        \A i, j \in DOMAIN s : i # j => s[i] # s[j]}

\* The user presses the widget's button: the GUI's object is initialised
\* again with the selection.  The kernel runs it between cells only.
GuiClick ==
    /\ pc \in CellBoundaries
    /\ hs[1].exists
    /\ guiClicks < MaxGuiClicks
    /\ \E sel \in GuiSelections :
          hs' = [hs EXCEPT ![1] = [exists |-> TRUE, subsystems |-> sel,
                                   interactions |-> << >>]]
    /\ guiClicks' = guiClicks + 1
    /\ UNCHANGED <<pc, bound, tmon1, tmon2, resonator, scalars, operator1,
                   operator2, hilbertspace, printed, sweep, arg, active,
                   observed, seen, explorer, calls, stages>>

\* hilbertspace = scq.HilbertSpace([tmon1, tmon2, resonator])
AssembleHilbertSpace ==
    /\ pc = "c4_hilbertspace"
    /\ pc' = NextStmt(pc)
    /\ hs' = [hs EXCEPT ![2] = [exists |-> TRUE,
                                subsystems |-> <<"tmon1", "tmon2", "resonator">>,
                                interactions |-> << >>]]
    /\ hilbertspace' = 2
    /\ bound' = bound \cup {"hilbertspace"}
    /\ LibCall("HilbertSpace")
    /\ UNCHANGED <<tmon1, tmon2, resonator, scalars, operator1, operator2,
                   printed, guiClicks, sweep, arg, active, observed, seen,
                   explorer>>

\* print(hilbertspace)
PrintHilbertSpace ==
    /\ pc = "c4_print"
    /\ pc' = NextStmt(pc)
    /\ hilbertspace # 0
    /\ printed' = [done |-> TRUE,
                   text |-> [i \in 1..Len(hs[hilbertspace].subsystems) |->
                                Obj(hs[hilbertspace].subsystems[i])]]
    /\ UNCHANGED <<bound, tmon1, tmon2, resonator, scalars, operator1,
                   operator2, hilbertspace, hs, guiClicks, sweep, arg, active,
                   observed, seen, explorer, calls, stages>>

\* g1 = 0.1
AssignG1 ==
    /\ pc = "c5_g1"
    /\ pc' = NextStmt(pc)
    /\ scalars' = [scalars EXCEPT !.g1 = 10]
    /\ bound' = bound \cup {"g1"}
    /\ UNCHANGED <<tmon1, tmon2, resonator, operator1, operator2,
                   hilbertspace, hs, printed, guiClicks, sweep, arg, active,
                   observed, seen, explorer, calls, stages>>

\* operator1 = tmon1.n_operator()
BuildOperator1 ==
    /\ pc = "c5_operator1"
    /\ pc' = NextStmt(pc)
    /\ operator1' = {"n"}
    /\ bound' = bound \cup {"operator1"}
    /\ LibCall("n_operator")
    /\ UNCHANGED <<tmon1, tmon2, resonator, scalars, operator2,
                   hilbertspace, hs, printed, guiClicks, sweep, arg, active,
                   observed, seen, explorer>>

\* operator2 = resonator.creation_operator() + resonator.annihilation_operator()
BuildOperator2 ==
    /\ pc = "c5_operator2"
    /\ pc' = NextStmt(pc)
    /\ operator2' = {"adag"} \cup {"a"}
    /\ bound' = bound \cup {"operator2"}
    /\ calls' = [calls EXCEPT !["creation_operator"] = @ + 1,
                              !["annihilation_operator"] = @ + 1]
    /\ stages' = stages \o <<StageOf("creation_operator"),
                             StageOf("annihilation_operator")>>
    /\ UNCHANGED <<tmon1, tmon2, resonator, scalars, operator1,
                   hilbertspace, hs, printed, guiClicks, sweep, arg, active,
                   observed, seen, explorer>>

\* hilbertspace.add_interaction(g=g1, op1=(operator1, tmon1),
\*                              op2=(operator2, resonator))
AddInteraction1 ==
    /\ pc = "c5_add1"
    /\ pc' = NextStmt(pc)
    /\ hilbertspace # 0
    /\ hs' = [hs EXCEPT ![hilbertspace].interactions = Append(@, Interaction1)]
    /\ LibCall("add_interaction")
    /\ UNCHANGED <<bound, tmon1, tmon2, resonator, scalars, operator1,
                   operator2, hilbertspace, printed, guiClicks, sweep, arg,
                   active, observed, seen, explorer>>

\* g2 = 0.2
AssignG2 ==
    /\ pc = "c5_g2"
    /\ pc' = NextStmt(pc)
    /\ scalars' = [scalars EXCEPT !.g2 = 20]
    /\ bound' = bound \cup {"g2"}
    /\ UNCHANGED <<tmon1, tmon2, resonator, operator1, operator2,
                   hilbertspace, hs, printed, guiClicks, sweep, arg, active,
                   observed, seen, explorer, calls, stages>>

\* hilbertspace.add_interaction(g=g2, op1=tmon2.n_operator,
\*                              op2=resonator.creation_operator, add_hc=True)
AddInteraction2 ==
    /\ pc = "c5_add2"
    /\ pc' = NextStmt(pc)
    /\ hilbertspace # 0
    /\ hs' = [hs EXCEPT ![hilbertspace].interactions = Append(@, Interaction2)]
    /\ LibCall("add_interaction")
    /\ UNCHANGED <<bound, tmon1, tmon2, resonator, scalars, operator1,
                   operator2, hilbertspace, printed, guiClicks, sweep, arg,
                   active, observed, seen, explorer>>

\* param_name = ...; param_vals = np.linspace(0.0, 1.0, 151);
\* subsys_update_list = [tmon1, tmon2]; def update_hilbertspace(param_val): ...
DefineSweepInputs ==
    /\ pc = "c6_params"
    /\ pc' = NextStmt(pc)
    /\ bound' = bound \cup {"param_name", "param_vals", "subsys_update_list",
                            "update_hilbertspace"}
    /\ calls' = [calls EXCEPT !["linspace"] = @ + 1]
    /\ UNCHANGED <<tmon1, tmon2, resonator, scalars, operator1, operator2,
                   hilbertspace, hs, printed, guiClicks, sweep, arg, active,
                   observed, seen, explorer, stages>>

-----------------------------------------------------------------------------
(* The sweep.  ParameterSweep(...) runs on construction, in the calling     *)
(* thread (num_cpus is not passed).  Its passes are those of the recorded   *)
(* progress bars: bare spectra of tmon1 and of tmon2 over the 151 points,   *)
(* the bare spectrum of the resonator (not in subsys_update_info) once,     *)
(* and the dressed spectrum over the 151 points.  In passes 1, 2 and 4 the  *)
(* library calls update_hilbertspace(param_val), waits for it to return,    *)
(* then reads the subsystems' attributes to diagonalise.                    *)

\* sweep = scq.ParameterSweep(..., hilbertspace=hilbertspace,
\*                            update_hilbertspace=update_hilbertspace)
StartSweep ==
    /\ pc = "c6_sweep"
    /\ pc' = "sw_next"
    /\ hilbertspace # 0
    /\ sweep' = [built |-> TRUE, hsid |-> hilbertspace, phase |-> 1, idx |-> 0,
                 ran |-> FALSE,
                 interactionsAtStart |-> Len(hs[hilbertspace].interactions)]
    /\ bound' = bound \cup {"sweep"}
    /\ LibCall("ParameterSweep")
    /\ UNCHANGED <<tmon1, tmon2, resonator, scalars, operator1, operator2,
                   hilbertspace, hs, printed, guiClicks, arg, active,
                   observed, seen, explorer>>

\* The library calls update_hilbertspace(param_vals[idx]).
SweepInvoke ==
    /\ pc = "sw_next"
    /\ sweep.phase \in {1, 2, 4}
    /\ pc' = "upd1"
    /\ arg' = sweep.idx
    /\ active' = active + 1
    /\ UNCHANGED <<bound, tmon1, tmon2, resonator, scalars, operator1,
                   operator2, hilbertspace, hs, printed, guiClicks, sweep,
                   observed, seen, explorer, calls, stages>>

\* tmon1.EJ = 30*np.abs(np.cos(np.pi * param_val))
UpdLine1 ==
    /\ pc = "upd1"
    /\ pc' = "upd2"
    /\ tmon1' = SetEJ1(tmon1, arg)
    /\ UNCHANGED <<bound, tmon2, resonator, scalars, operator1, operator2,
                   hilbertspace, hs, printed, guiClicks, sweep, arg, active,
                   observed, seen, explorer, calls, stages>>

\* tmon2.EJ = 40*np.abs(np.cos(np.pi * param_val * 2)), and the return
UpdLine2 ==
    /\ pc = "upd2"
    /\ pc' = "upd_ret"
    /\ tmon2' = SetEJ2(tmon2, arg)
    /\ active' = active - 1
    /\ UNCHANGED <<bound, tmon1, resonator, scalars, operator1, operator2,
                   hilbertspace, hs, printed, guiClicks, sweep, arg,
                   observed, seen, explorer, calls, stages>>

\* The library reads before the callback has returned.
SweepReaderReadyEarly == pc \in {"upd2", "upd_ret"}

\* The library reads the attributes once the callback has returned.
SweepReaderReady == pc = "upd_ret"

\* The library diagonalises at the point just updated and moves on.
SweepDiag ==
    /\ SweepReaderReady
    /\ sweep.built /\ ~sweep.ran
    /\ pc' = "sw_next"
    /\ observed' = [valid |-> TRUE, phase |-> sweep.phase, k |-> arg,
                    EJ1 |-> tmon1.EJ, EJ2 |-> tmon2.EJ, active |-> active]
    /\ sweep' = IF sweep.idx + 1 < NumPts
                THEN [sweep EXCEPT !.idx = @ + 1]
                ELSE [sweep EXCEPT !.idx = 0, !.phase = @ + 1]
    /\ UNCHANGED <<bound, tmon1, tmon2, resonator, scalars, operator1,
                   operator2, hilbertspace, hs, printed, guiClicks, arg,
                   active, seen, explorer, calls, stages>>

\* The resonator's bare spectrum: one diagonalisation, no callback.
SweepBareResonator ==
    /\ pc = "sw_next"
    /\ sweep.phase = 3
    /\ observed' = [observed EXCEPT !.phase = 3, !.active = active]
    /\ sweep' = [sweep EXCEPT !.phase = 4, !.idx = 0]
    /\ UNCHANGED <<pc, bound, tmon1, tmon2, resonator, scalars, operator1,
                   operator2, hilbertspace, hs, printed, guiClicks, arg,
                   active, seen, explorer, calls, stages>>

\* The constructor returns: the sweep has run.
SweepFinish ==
    /\ pc = "sw_next"
    /\ sweep.phase = 5
    /\ sweep' = [sweep EXCEPT !.ran = TRUE]
    /\ pc' = NextStmt("c6_sweep")
    /\ UNCHANGED <<bound, tmon1, tmon2, resonator, scalars, operator1,
                   operator2, hilbertspace, hs, printed, guiClicks, arg,
                   active, observed, seen, explorer, calls, stages>>

\* explorer = scq.Explorer(sweep=sweep)
MakeExplorer ==
    /\ pc = "c7_explorer"
    /\ pc' = NextStmt(pc)
    /\ explorer' = [built |-> TRUE, sweepBuilt |-> sweep.built,
                    sweepRan |-> sweep.ran]
    /\ bound' = bound \cup {"explorer"}
    /\ LibCall("Explorer")
    /\ UNCHANGED <<tmon1, tmon2, resonator, scalars, operator1, operator2,
                   hilbertspace, hs, printed, guiClicks, sweep, arg, active,
                   observed, seen>>

Next ==
    \/ Import
    \/ MakeTmon1
    \/ MakeTmon2
    \/ MakeResonator
    \/ AssignG
    \/ CreateByGui
    \/ GuiClick
    \/ AssembleHilbertSpace
    \/ PrintHilbertSpace
    \/ AssignG1
    \/ BuildOperator1
    \/ BuildOperator2
    \/ AddInteraction1
    \/ AssignG2
    \/ AddInteraction2
    \/ DefineSweepInputs
    \/ StartSweep
    \/ SweepInvoke
    \/ UpdLine1
    \/ UpdLine2
    \/ SweepDiag
    \/ SweepBareResonator
    \/ SweepFinish
    \/ MakeExplorer

Spec == Init /\ [][Next]_vars

-----------------------------------------------------------------------------
(* update_hilbertspace on its own: applied to any grid value, in any order, *)
(* from any state of the two EJ attributes.                                 *)

\* The values tmon1.EJ and tmon2.EJ may hold before a call: the
\* constructors' and others.
PriorEJ1 == {Tmon1Args.EJ, 0, 2500}

PriorEJ2 == {Tmon2Args.EJ, 0, 4000}

\* The notebook's objects once update_hilbertspace is defined (cell
\* a2f8a9c8), the EJ attributes being any prior values.
UpdInit ==
    /\ pc = "idle"
    /\ bound = {"np", "scq", "tmon1", "tmon2", "resonator", "g",
                "hilbertspace", "g1", "operator1", "operator2", "g2",
                "param_name", "param_vals", "subsys_update_list",
                "update_hilbertspace"}
    /\ \E e \in PriorEJ1 : tmon1 = [Tmon1Args EXCEPT !.EJ = e]
    /\ \E e \in PriorEJ2 : tmon2 = [Tmon2Args EXCEPT !.EJ = e]
    /\ resonator = ResonatorArgs
    /\ scalars = [g |-> 10, g1 |-> 10, g2 |-> 20]
    /\ operator1 = {"n"}
    /\ operator2 = {"adag", "a"}
    /\ hilbertspace = 2
    /\ hs = [i \in {1, 2} |->
               IF i = 1
               THEN [exists |-> TRUE, subsystems |-> << >>, interactions |-> << >>]
               ELSE [exists |-> TRUE,
                     subsystems |-> <<"tmon1", "tmon2", "resonator">>,
                     interactions |->
                        << [g |-> 10, sys1 |-> "tmon1", op1 |-> {"n"},
                            sys2 |-> "resonator", op2 |-> {"adag", "a"},
                            add_hc |-> FALSE],
                           [g |-> 20, sys1 |-> "tmon2", op1 |-> {"n"},
                            sys2 |-> "resonator", op2 |-> {"adag"},
                            add_hc |-> TRUE] >>]]
    /\ printed = [done |-> TRUE, text |-> <<Tmon1Args, Tmon2Args, ResonatorArgs>>]
    /\ guiClicks = 0
    /\ sweep = NoSweep
    /\ arg = 0
    /\ active = 0
    /\ observed = NoObservation
    /\ seen = [k \in SampleIdx |-> NoPair]
    /\ explorer = NoExplorer
    /\ calls = [c \in Callees |->
                  CASE c \in {"Transmon", "add_interaction"} -> 2
                    [] c \in {"ParameterSweep", "Explorer"} -> 0
                    [] OTHER -> 1]
    /\ stages = <<1, 1, 1, 2, 2, 3, 3, 3, 3, 3>>

\* update_hilbertspace(param_vals[k]) is called.
UpdCall ==
    /\ pc = "idle"
    /\ \E k \in SampleIdx : arg' = k
    /\ pc' = "upd1"
    /\ active' = active + 1
    /\ UNCHANGED <<bound, tmon1, tmon2, resonator, scalars, operator1,
                   operator2, hilbertspace, hs, printed, guiClicks, sweep,
                   observed, seen, explorer, calls, stages>>

\* The call has returned; the pair it left is remembered the first time.
UpdDone ==
    /\ pc = "upd_ret"
    /\ ~sweep.built
    /\ pc' = "idle"
    /\ seen' = IF seen[arg] = NoPair
               THEN [seen EXCEPT ![arg] = <<tmon1.EJ, tmon2.EJ>>]
               ELSE seen
    /\ UNCHANGED <<bound, tmon1, tmon2, resonator, scalars, operator1,
                   operator2, hilbertspace, hs, printed, guiClicks, sweep,
                   arg, active, observed, explorer, calls, stages>>

\* Between two calls the EJ attributes take any prior values.
PriorState ==
    /\ pc = "idle"
    /\ \E e \in PriorEJ1 : tmon1' = [tmon1 EXCEPT !.EJ = e]
    /\ \E e \in PriorEJ2 : tmon2' = [tmon2 EXCEPT !.EJ = e]
    /\ UNCHANGED <<pc, bound, resonator, scalars, operator1, operator2,
                   hilbertspace, hs, printed, guiClicks, sweep, arg, active,
                   observed, seen, explorer, calls, stages>>

UpdNext ==
    \/ UpdCall
    \/ UpdLine1
    \/ UpdLine2
    \/ UpdDone
    \/ PriorState

UpdSpec == UpdInit /\ [][UpdNext]_vars

-----------------------------------------------------------------------------
(* Properties *)

\* The number of scqubits calls the notebook has made in stage s.
RECURSIVE SumCalls(_)
SumCalls(cs) ==
    IF cs = {} THEN 0
    ELSE LET c == CHOOSE x \in cs : TRUE
         IN  calls[c] + SumCalls(cs \ {c})

StageCalls(s) == SumCalls({c \in ScqCallees : StageOf(c) = s})

\* C1: the five stages run in one fixed order, each finishing before the
\* next begins: the stages of the scqubits calls never decrease along the
\* run, a sweep is only ever started on a HilbertSpace that already holds
\* both interaction terms (and none is added afterwards), the Explorer is
\* only ever created from a sweep that has run, and a finished run has gone
\* through all five stages.
C1_StagesInOrder ==
    /\ \A i, j \in 1..Len(stages) : i < j => stages[i] <= stages[j]
    /\ sweep.built => /\ sweep.interactionsAtStart = 2
                      /\ calls["add_interaction"] = 2
                      /\ Len(hs[sweep.hsid].interactions) = 2
    /\ explorer.built => /\ explorer.sweepBuilt
                         /\ explorer.sweepRan
                         /\ sweep.ran
    /\ pc = "done" => {stages[i] : i \in 1..Len(stages)} = 1..5

\* C1's case: the run is over, the Explorer stands on the sweep that ran.
C1_Witness ==
    /\ pc = "done"
    /\ explorer.built
    /\ sweep.ran
    /\ observed.phase = 4

\* C2 as stated: over one full run every stage is performed by exactly one
\* library call.
C2_OneCallPerStage ==
    pc = "done" => \A s \in 1..5 : StageCalls(s) = 1

\* C2, amended: over one full run, stage 1 is three constructor calls
\* (Transmon twice, Oscillator once), stage 2 two calls (HilbertSpace.create
\* and HilbertSpace), stage 3 five calls (n_operator, creation_operator,
\* annihilation_operator, and add_interaction twice); only stage 4
\* (ParameterSweep, fed by one np.linspace call) and stage 5 (Explorer) are
\* one scqubits call each.
C2_CallsPerStage ==
    pc = "done" =>
        /\ calls = [c \in Callees |->
                      IF c \in {"Transmon", "add_interaction"} THEN 2 ELSE 1]
        /\ StageCalls(1) = 3
        /\ StageCalls(2) = 2
        /\ StageCalls(3) = 5
        /\ StageCalls(4) = 1
        /\ StageCalls(5) = 1

\* C2's case: a full run has made its twelve scqubits calls.
C2_Witness ==
    /\ pc = "done"
    /\ Len(stages) = 12
    /\ calls["Explorer"] = 1

\* The term g * n_j * (a + adag) between transmon t and the resonator,
\* expanded.
Coupling(t, g) ==
    {[sys1 |-> t, op1 |-> "n", sys2 |-> "resonator", op2 |-> "a", coeff |-> g],
     [sys1 |-> t, op1 |-> "n", sys2 |-> "resonator", op2 |-> "adag", coeff |-> g]}

\* C3: after both add_interaction calls the interaction Hamiltonian is
\* g1 n1 (a + adag) + g2 n2 (a + adag) with g1 = 0.1, g2 = 0.2: each call
\* alone gives a term of that form coupling one transmon to the resonator,
\* and nothing couples the two transmons.
C3_InteractionHamiltonian ==
    (calls["add_interaction"] = 2 /\ hilbertspace # 0) =>
        LET ts == hs[hilbertspace].interactions
        IN  /\ Len(ts) = 2
            /\ InteractionHamiltonian(<<ts[1]>>) = Coupling("tmon1", 10)
            /\ InteractionHamiltonian(<<ts[2]>>) = Coupling("tmon2", 20)
            /\ InteractionHamiltonian(ts)
                  = Coupling("tmon1", 10) \cup Coupling("tmon2", 20)
            /\ \A h \in InteractionHamiltonian(ts) :
                  {h.sys1, h.sys2} # {"tmon1", "tmon2"}

\* C3's case: both terms are registered, the second with add_hc.
C3_Witness ==
    /\ calls["add_interaction"] = 2
    /\ Len(hs[2].interactions) = 2
    /\ hs[2].interactions[2].add_hc
    /\ ~hs[2].interactions[1].add_hc

\* C4: the HilbertSpace that receives the add_interaction calls and goes to
\* ParameterSweep is the programmatic one, made of tmon1, tmon2, resonator
\* in this order with their constructor parameters (EJ 40.0 and 15.0 when
\* printed); the GUI's object never receives an interaction and is never
\* swept, whatever the user selected in the widget.
C4_ProgrammaticHilbertSpace ==
    /\ hs[1].interactions = << >>
    /\ (calls["add_interaction"] > 0 \/ sweep.built) => hilbertspace = 2
    /\ sweep.built => sweep.hsid = 2
    /\ hs[2].exists => hs[2].subsystems = <<"tmon1", "tmon2", "resonator">>
    /\ hs[2].exists => Len(hs[2].interactions) = calls["add_interaction"]
    /\ printed.done => printed.text = <<Tmon1Args, Tmon2Args, ResonatorArgs>>

\* C4's case: the user has filled the GUI's object with a selection of its
\* own, and the sweep has been built all the same.
C4_Witness ==
    /\ sweep.built
    /\ guiClicks > 0
    /\ hs[1].exists
    /\ hs[1].subsystems = <<"resonator", "tmon1">>
    /\ Len(hs[2].interactions) = 2

\* C5: no two update_hilbertspace calls overlap and none overlaps another
\* step: at most one frame is ever active, only while its own two
\* statements run; the library reads with no call active, and the pair
\* (tmon1.EJ, tmon2.EJ) it reads is the pair of one grid value, the one it
\* just passed.
C5_NoOverlap ==
    /\ active \in {0, 1}
    /\ active = 1 <=> pc \in {"upd1", "upd2"}
    /\ observed.active = 0
    /\ observed.valid =>
          /\ observed.k \in Grid
          /\ \E k \in Grid : /\ observed.EJ1 = 30 * AbsCos(Angle1(k))
                             /\ observed.EJ2 = 40 * AbsCos(Angle2(k))
                             /\ k = observed.k

\* C5's case: inside a call, between its two assignments, tmon1.EJ is
\* already of the new grid value and tmon2.EJ still of the previous one.
C5_Witness ==
    /\ pc = "upd2"
    /\ sweep.phase = 4
    /\ observed.valid
    /\ arg = observed.k + 1
    /\ tmon1.EJ = 30 * AbsCos(Angle1(arg))
    /\ tmon2.EJ # 40 * AbsCos(Angle2(arg))

\* C6 as stated: in the composite Hilbert space tmon1 keeps 3 levels and
\* the resonator 4.
C6_Tmon1KeepsThreeLevels ==
    hs[2].exists => /\ tmon1.truncated_dim = 3
                    /\ resonator.truncated_dim = 4

\* Everything of a transmon but its EJ.
NonEJ(t) == [EC |-> t.EC, ng |-> t.ng, ncut |-> t.ncut,
             truncated_dim |-> t.truncated_dim]

\* What a step of update_hilbertspace must leave alone.
RestUnchanged ==
    /\ NonEJ(tmon1)' = NonEJ(tmon1)
    /\ NonEJ(tmon2)' = NonEJ(tmon2)
    /\ resonator' = resonator
    /\ scalars' = scalars
    /\ hs' = hs
    /\ hilbertspace' = hilbertspace
    /\ operator1' = operator1
    /\ operator2' = operator2

\* C7: a step of update_hilbertspace changes nothing but tmon1.EJ and
\* tmon2.EJ: the transmons' other attributes, the resonator, g, g1, g2, the
\* HilbertSpace objects (subsystems, interaction terms) and the binding of
\* hilbertspace are as before.
C7_OnlyEJChanges == [][(pc \in {"upd1", "upd2"}) => RestUnchanged]_vars

\* C7's case: the sweep's calls have moved both EJ away from the
\* constructors' values.
C7_Witness ==
    /\ pc = "upd_ret"
    /\ sweep.phase = 2
    /\ tmon1.EJ # Tmon1Args.EJ
    /\ tmon2.EJ # Tmon2Args.EJ
    /\ NonEJ(tmon1) = NonEJ(Tmon1Args)

\* C8: the pair (tmon1.EJ, tmon2.EJ) a call leaves depends on its argument
\* only: whenever a call for a grid value returns, the pair is the one the
\* first call for that value left, whatever was called or held in between
\* (the same value again, other values, the constructors' values).
C8_DependsOnArgumentOnly ==
    pc = "upd_ret" =>
        \/ seen[arg] = NoPair
        \/ seen[arg] = <<tmon1.EJ, tmon2.EJ>>

\* C8's case: a grid value is called again after another value has been
\* called in between.
C8_Witness ==
    /\ pc = "upd_ret"
    /\ seen[arg] # NoPair
    /\ \E k \in SampleIdx : k # arg /\ seen[k] # NoPair /\ seen[k] # seen[arg]

=============================================================================
